---- MODULE Spec2Model ----
(***************************************************************************)
(* Model of the web crawler in src/src/main.rs: main's seed loop, crawl,   *)
(* save_to_file (the output key rule) and parse_links.                     *)
(*                                                                         *)
(* Strings are sequences of one-character strings, so that the string      *)
(* operations of the code (replace, split, join, sort) are computed.       *)
(***************************************************************************)
EXTENDS Integers, Sequences, FiniteSets, TLC

VARIABLES
    \* --- the crawl (main, crawl, parse_links) ---
    pc,         \* control position of the single async task
    start_urls, \* main: config.start_urls as read from config.json
    seeds,      \* main: the rest of the `for url in start_urls` iterator
    max_depth,  \* main: config.max_depth
    task,       \* the running crawl invocation: <<[url, depth]>>, or <<>>
    stack,      \* suspended parse_links loops: [url, links, depth], innermost last
    visited,    \* the HashSet<String> behind the Mutex
    lock,       \* TRUE while a MutexGuard on `visited` is alive
    fetchLog,   \* history: [url, depth] for every client.get(..).send()
    failed,     \* history: the url strings whose fetch yielded no body
    skipped,    \* history: [url, why] for every crawl that returned unfetched
    buckets,    \* crawled_pages/: file name -> sequence of appended entries
    pages,      \* history: url string -> [main, links] of every body received
    result,     \* main's return value: "none" while running, "ok", "err"
    \* --- save_to_file's file name, applied to one address ---
    kphase, kpieces, kaddr, key,
    \* --- parse_links' extraction, applied to one document ---
    lphase, lbase, ldoc, llinks, ldoc2, llinks2

crawlVars == <<pc, start_urls, seeds, max_depth, task, stack, visited, lock, fetchLog,
               failed, skipped, buckets, pages, result>>
keyVars   == <<kphase, kpieces, kaddr, key>>
linkVars  == <<lphase, lbase, ldoc, llinks, ldoc2, llinks2>>
vars      == <<crawlVars, keyVars, linkVars>>

(***************************************************************************)
(* Bounds of the model.                                                    *)
(***************************************************************************)
MaxPieces   == 4    \* path pieces of an address given to the file-name rule
MaxAnchors  == 3    \* a[href] elements of a document given to extraction
MaxSeeds    == 2    \* entries of config.start_urls
MaxDepthCfg == 2    \* largest config.max_depth tried
MaxPageAnchors == 2 \* a[href] elements of a page served during a crawl

(***************************************************************************)
(* Characters and strings.                                                 *)
(***************************************************************************)
Letters == <<"a","b","c","d","e","f","g","h","i","j","k","l","m",
             "n","o","p","q","r","s","t","u","v","w","x","y","z">>
Digits  == <<"0","1","2","3","4","5","6","7","8","9">>

InSeq(c, s) == \E i \in 1..Len(s) : s[i] = c
IndexOf(c, s) == CHOOSE i \in 1..Len(s) : s[i] = c

\* char::is_alphanumeric on the characters of a serialized URL (ASCII)
IsAlphanumeric(c) == InSeq(c, Letters) \/ InSeq(c, Digits)

\* the byte of an ASCII character: the order String and Url compare by
Byte(c) ==
    IF InSeq(c, Letters) THEN 96 + IndexOf(c, Letters)
    ELSE IF InSeq(c, Digits) THEN 47 + IndexOf(c, Digits)
    ELSE CASE c = "#" -> 35 [] c = "-" -> 45 [] c = "." -> 46 [] c = "/" -> 47
           [] c = ":" -> 58 [] c = "=" -> 61 [] c = "?" -> 63 [] c = "_" -> 95

RECURSIVE StrLess(_, _)
StrLess(s, t) ==
    IF t = <<>> THEN FALSE
    ELSE IF s = <<>> THEN TRUE
    ELSE IF Head(s) = Head(t) THEN StrLess(Tail(s), Tail(t))
    ELSE Byte(Head(s)) < Byte(Head(t))

RECURSIVE Flatten(_)
Flatten(ss) == IF ss = <<>> THEN <<>> ELSE Head(ss) \o Flatten(Tail(ss))

SeqsUpTo(S, n) == UNION {[1..k -> S] : k \in 0..n}

HttpsPrefix == <<"h","t","t","p","s",":","/","/">>
HttpPrefix  == <<"h","t","t","p",":","/","/">>

(***************************************************************************)
(* save_to_file: the file name of an address (main.rs 121-137).            *)
(***************************************************************************)
\* str::replace(pat, ""): every non-overlapping match, left to right
RECURSIVE RemoveAll(_, _)
RemoveAll(s, pat) ==
    IF Len(s) < Len(pat) THEN s
    ELSE IF SubSeq(s, 1, Len(pat)) = pat
         THEN RemoveAll(SubSeq(s, Len(pat) + 1, Len(s)), pat)
         ELSE <<Head(s)>> \o RemoveAll(Tail(s), pat)

\* the closure of line 125, negated: the characters that are NOT replaced
KeepsChar(c) == IsAlphanumeric(c) \/ c = "."

\* .replace(|c| !c.is_alphanumeric() && !c.eq(&'.'), "_")
Underscore(s) == [i \in 1..Len(s) |-> IF KeepsChar(s[i]) THEN s[i] ELSE "_"]

RawFilename(urlStr) ==
    Underscore(RemoveAll(RemoveAll(urlStr, HttpsPrefix), HttpPrefix))

\* raw_filename.split('_').filter(|s| !s.is_empty()).collect()
RECURSIVE SplitAcc(_, _)
SplitAcc(s, cur) ==
    IF s = <<>> THEN (IF cur = <<>> THEN <<>> ELSE <<cur>>)
    ELSE IF Head(s) = "_"
         THEN (IF cur = <<>> THEN <<>> ELSE <<cur>>) \o SplitAcc(Tail(s), <<>>)
         ELSE SplitAcc(Tail(s), Append(cur, Head(s)))

Segments(urlStr) == SplitAcc(RawFilename(urlStr), <<>>)

RECURSIVE JoinUnderscore(_)
JoinUnderscore(segs) ==
    IF segs = <<>> THEN <<>>
    ELSE IF Len(segs) = 1 THEN Head(segs)
    ELSE Head(segs) \o <<"_">> \o JoinUnderscore(Tail(segs))

MAX_SEGMENTS == 3

FilenameOfSegsNoTruncate(segs) == JoinUnderscore(segs)
FilenameOfSegs(segs) ==
    IF Len(segs) <= MAX_SEGMENTS
    THEN JoinUnderscore(segs)
    ELSE JoinUnderscore(SubSeq(segs, 1, MAX_SEGMENTS))

Filename(urlStr) == FilenameOfSegs(Segments(urlStr))

(***************************************************************************)
(* Url (the url crate's type, as main.rs uses it).  An Option is a         *)
(* sequence of length at most one: <<>> is None, <<x>> is Some(x).         *)
(***************************************************************************)
S_https == <<"h","t","t","p","s">>
S_http  == <<"h","t","t","p">>
HostA   == <<"a",".","e","x">>
HostB   == <<"b",".","e","x">>
HostIp1 == <<"1",".","1",".","1",".","1">>
HostIp2 == <<"1",".","1",".","1",".","2">>
PathP   == <<"/","p">>
PathQ   == <<"/","q">>
FragF   == <<"f">>

MkUrl(scheme, host, path, frag) ==
    [scheme |-> scheme, host |-> host, path |-> path, frag |-> frag]

\* Url::as_str / to_string / Display: the serialization
UrlStr(u) ==
    u.scheme \o <<":","/","/">> \o u.host \o u.path
    \o (IF u.frag = <<>> THEN <<>> ELSE <<"#">> \o u.frag[1])

\* a host that parses as an IPv4 address is Host::Ipv4, not Host::Domain
IsIpv4(h) == \A i \in 1..Len(h) : InSeq(h[i], Digits) \/ h[i] = "."

\* Url::domain(): Some(host) for a domain name, None for an IP address
Domain(u) == IF IsIpv4(u.host) THEN <<>> ELSE <<u.host>>

\* position of the first occurrence of character c in s, 0 if none
FirstIndex(c, s) ==
    IF InSeq(c, s) THEN CHOOSE i \in 1..Len(s) :
                            s[i] = c /\ \A j \in 1..(i-1) : s[j] # c
    ELSE 0

\* the text after "scheme://": host, then path (default "/"), then #fragment
ParseAfterScheme(scheme, rest) ==
    LET h  == FirstIndex("#", rest)
        nf == IF h = 0 THEN rest ELSE SubSeq(rest, 1, h - 1)
        fr == IF h = 0 THEN <<>> ELSE <<SubSeq(rest, h + 1, Len(rest))>>
        s  == FirstIndex("/", nf)
        ho == IF s = 0 THEN nf ELSE SubSeq(nf, 1, s - 1)
        pa == IF s = 0 THEN <<"/">> ELSE SubSeq(nf, s, Len(nf))
    IN  IF ho = <<>> THEN <<>> ELSE <<MkUrl(scheme, ho, pa, fr)>>

\* Url::parse(&url) of main.rs 71: Ok(url) is <<url>>, Err is <<>>.
\* A string without a scheme is a relative URL without a base: an error.
UrlParse(str) ==
    IF Len(str) >= Len(HttpsPrefix) /\ SubSeq(str, 1, Len(HttpsPrefix)) = HttpsPrefix
    THEN ParseAfterScheme(S_https, SubSeq(str, Len(HttpsPrefix) + 1, Len(str)))
    ELSE IF Len(str) >= Len(HttpPrefix) /\ SubSeq(str, 1, Len(HttpPrefix)) = HttpPrefix
    THEN ParseAfterScheme(S_http, SubSeq(str, Len(HttpPrefix) + 1, Len(str)))
    ELSE <<>>

(***************************************************************************)
(* An href attribute value, by the case of URL resolution it falls in:     *)
(*   "abs"  an absolute URL                 https://a.ex/p#f               *)
(*   "path" a path-absolute reference       /p#f                           *)
(*   "frag" a same-document reference       #f                             *)
(*   "bad"  text that Url::join rejects     https://[                      *)
(***************************************************************************)
HrefAbs(u)      == [kind |-> "abs", url |-> u]
HrefPath(p, f)  == [kind |-> "path", url |-> MkUrl(<<>>, <<>>, p, f)]
HrefFrag(f)     == [kind |-> "frag", url |-> MkUrl(<<>>, <<>>, <<>>, f)]
HrefBad         == [kind |-> "bad", url |-> MkUrl(<<>>, <<>>, <<>>, <<>>)]

\* base_url.join(href) of main.rs 168: Ok(url) is <<url>>, Err is <<>>
UrlJoin(base, href) ==
    CASE href.kind = "abs"  -> <<href.url>>
      [] href.kind = "path" -> <<MkUrl(base.scheme, base.host, href.url.path, href.url.frag)>>
      [] href.kind = "frag" -> <<MkUrl(base.scheme, base.host, base.path, href.url.frag)>>
      [] href.kind = "bad"  -> <<>>

\* absolute_url.set_fragment(None) of main.rs 171
SetFragmentNone(u) == [u EXCEPT !.frag = <<>>]

\* Ord for Url compares the serializations
UrlLess(a, b) == StrLess(UrlStr(a), UrlStr(b))

RECURSIVE InsertSorted(_, _)
InsertSorted(u, s) ==
    IF s = <<>> THEN <<u>>
    ELSE IF UrlLess(u, Head(s)) THEN <<u>> \o s
    ELSE <<Head(s)>> \o InsertSorted(u, Tail(s))

RECURSIVE SortRec(_)
SortRec(s) == IF s = <<>> THEN <<>> ELSE InsertSorted(Head(s), SortRec(Tail(s)))

SortUrlsNoop(s) == s
\* links_to_visit.sort() of main.rs 189
SortUrls(s) == SortRec(s)

\* Vec::dedup: removes consecutive repeated elements (main.rs 65 and 190)
RECURSIVE Dedup(_)
Dedup(s) ==
    IF Len(s) <= 1 THEN s
    ELSE IF s[1] = s[2] THEN Dedup(Tail(s))
    ELSE <<Head(s)>> \o Dedup(Tail(s))

\* the loop of main.rs 164-186: the pushes onto links_to_visit, in order
RECURSIVE CollectLinks(_, _)
CollectLinks(base, doc) ==
    IF doc = <<>> THEN <<>>
    ELSE LET joined == UrlJoin(base, Head(doc))
             rest   == CollectLinks(base, Tail(doc))
         IN  IF joined = <<>> THEN rest
             ELSE LET absolute_url == SetFragmentNone(joined[1])
                  IN  IF Domain(absolute_url) = Domain(base)
                      THEN <<absolute_url>> \o rest
                      ELSE rest

\* links_to_visit as the for loop of main.rs 192 receives it
ExtractLinks(base, doc) == Dedup(SortUrls(CollectLinks(base, doc)))

Range(s) == {s[i] : i \in 1..Len(s)}

(***************************************************************************)
(* State of the parts a specification does not exercise.                   *)
(***************************************************************************)
CrawlIdle ==
    /\ pc = "idle" /\ start_urls = <<>> /\ seeds = <<>> /\ max_depth = 0 /\ task = <<>>
    /\ stack = <<>> /\ visited = {} /\ lock = FALSE /\ fetchLog = <<>>
    /\ failed = {} /\ skipped = {} /\ buckets = <<>> /\ pages = <<>>
    /\ result = "none"

KeyIdle == kphase = "idle" /\ kpieces = <<>> /\ kaddr = <<>> /\ key = <<>>

LinkIdle ==
    /\ lphase = "idle" /\ lbase = <<>> /\ ldoc = <<>> /\ llinks = <<>>
    /\ ldoc2 = <<>> /\ llinks2 = <<>>

(***************************************************************************)
(* SpecKey: save_to_file's file name rule applied to one address.          *)
(***************************************************************************)
KeyPieces ==
    { <<"/","p">>, <<"/","q">>, <<"/","r">>, <<"/","s">>, <<"/","t">>,
      <<"/","-">>,
      <<"/","h","t","t","p",":","/","/">>,
      <<"/","h","t","t","p","s",":","/","/">> }

\* the serialization of scheme://a.ex followed by the path pieces
AddrOf(scheme, pieces) ==
    UrlStr(MkUrl(scheme, HostA,
                 IF pieces = <<>> THEN <<"/">> ELSE Flatten(pieces), <<>>))

KInit ==
    /\ CrawlIdle /\ LinkIdle
    /\ kphase = "input"
    /\ kpieces \in SeqsUpTo(KeyPieces, MaxPieces)
    /\ \E scheme \in {S_https, S_http} : kaddr = AddrOf(scheme, kpieces)
    /\ key = <<>>

\* save_to_file, lines 121-139: the file name of `url`
KApply ==
    /\ kphase = "input"
    /\ key' = Filename(kaddr)
    /\ kphase' = "keyed"
    /\ UNCHANGED <<kpieces, kaddr, crawlVars, linkVars>>

KNext == KApply

SpecKey == KInit /\ [][KNext]_vars

(***************************************************************************)
(* SpecLinks: parse_links' extraction applied to one document, and to a    *)
(* variant of it with the same anchors.                                    *)
(***************************************************************************)
UrlAP   == MkUrl(S_https, HostA, PathP, <<>>)
UrlAQ   == MkUrl(S_https, HostA, PathQ, <<>>)
UrlAQf  == MkUrl(S_https, HostA, PathQ, <<FragF>>)
UrlBP   == MkUrl(S_https, HostB, PathP, <<>>)
UrlI1P  == MkUrl(S_http, HostIp1, PathP, <<>>)
UrlI2P  == MkUrl(S_http, HostIp2, PathP, <<>>)
UrlHAP  == MkUrl(S_http, HostA, PathP, <<>>)

LinkHrefs ==
    { HrefAbs(UrlAP), HrefAbs(UrlAQf), HrefAbs(UrlBP), HrefAbs(UrlI2P),
      HrefAbs(UrlHAP), HrefPath(PathQ, <<>>), HrefFrag(FragF), HrefBad }

LinkBases == { UrlAP, UrlAQf, UrlI1P }

LInit ==
    /\ CrawlIdle /\ KeyIdle
    /\ lphase = "input"
    /\ lbase \in LinkBases
    /\ ldoc \in SeqsUpTo(LinkHrefs, MaxAnchors)
    /\ llinks = <<>> /\ ldoc2 = <<>> /\ llinks2 = <<>>

\* parse_links, lines 159-190
LExtract ==
    /\ lphase = "input"
    /\ llinks' = ExtractLinks(lbase, ldoc)
    /\ lphase' = "extracted"
    /\ UNCHANGED <<lbase, ldoc, ldoc2, llinks2, crawlVars, keyVars>>

LVariant(doc2) ==
    /\ lphase = "extracted"
    /\ ldoc2' = doc2
    /\ llinks2' = ExtractLinks(lbase, doc2)
    /\ lphase' = "variant"
    /\ UNCHANGED <<lbase, ldoc, llinks, crawlVars, keyVars>>

\* the same document with two anchors exchanged
LSwap ==
    \E i, j \in 1..Len(ldoc) :
        /\ i < j
        /\ LVariant([ldoc EXCEPT ![i] = ldoc[j], ![j] = ldoc[i]])

\* the same document with one anchor repeated
LDup == \E i \in 1..Len(ldoc) : LVariant(Append(ldoc, ldoc[i]))

\* the same document parsed again
LAgain == LVariant(ldoc)

LNext == LExtract \/ LSwap \/ LDup \/ LAgain

SpecLinks == LInit /\ [][LNext]_vars

(***************************************************************************)
(* Spec: one run of main (lines 61-74), crawl (77-113) and the recursion   *)
(* of parse_links (192-198).  Every call is awaited where it is made, so   *)
(* the run is one thread of control: `task` is the crawl invocation that   *)
(* is running and `stack` holds the parse_links loops waiting for it.      *)
(***************************************************************************)
SeedA == UrlStr(UrlAP)
\* a seed with a fragment; its file name is that of SeedA ('#' and '-' are
\* both replaced, and empty segments dropped)
FragDash == <<"-">>
SeedF == UrlStr(MkUrl(S_https, HostA, PathP, <<FragDash>>))
SeedX == <<"q">>

\* the strings config.start_urls is drawn from; SeedX is not an absolute URL
SeedStrs == {SeedA, SeedF, SeedX}

\* the href values of the pages the transport serves
PageHrefs == { HrefPath(PathP, <<>>), HrefPath(PathQ, <<FragF>>), HrefAbs(UrlBP) }
PageDocs  == SeqsUpTo(PageHrefs, MaxPageAnchors)

Init ==
    /\ KeyIdle /\ LinkIdle
    /\ pc = "start"
    /\ start_urls \in SeqsUpTo(SeedStrs, MaxSeeds)
    /\ seeds = <<>>
    /\ max_depth \in 0..MaxDepthCfg
    /\ task = <<>> /\ stack = <<>> /\ visited = {} /\ lock = FALSE
    /\ fetchLog = <<>> /\ failed = {} /\ skipped = {} /\ buckets = <<>>
    /\ pages = <<>>
    /\ result = "none"

Url_(t)   == t[1].url
Depth_(t) == t[1].depth

\* where control goes when a crawl invocation returns: to the parse_links
\* loop that awaited it (line 197), or to main's loop (line 71)
ReturnPc(stk) == IF stk = <<>> THEN "main" ELSE "links"

\* line 84
DepthExceeded(depth, maxd) == depth > maxd

ChildDepthSame(depth) == depth
\* line 197: depth + 1
ChildDepth(depth) == depth + 1

AlreadyVisitedNever(v, str) == FALSE
\* line 89: visited_lock.contains(url.as_str())
AlreadyVisited(v, str) == str \in v

InsertVisitedNoop(v, str) == v
\* line 92: visited_lock.insert(url.to_string())
InsertVisited(v, str) == v \cup {str}

\* the entry save_to_file appends: the header with the URL, then the
\* inner HTML of the first <main> element (lines 144-146)
Entry(url) == [url |-> UrlStr(url), body |-> "main"]

SaveToFileTruncating(b, url, hasMain) ==
    IF ~hasMain THEN b
    ELSE Filename(UrlStr(url)) :> <<Entry(url)>> @@ b

\* save_to_file (lines 115-149): nothing without a <main> element,
\* otherwise one entry appended to the file named by the rule.  The open
\* of line 142 is taken to succeed: crawled_pages/ was created at line 54.
SaveToFile(b, url, hasMain) ==
    IF ~hasMain THEN b
    ELSE LET k == Filename(UrlStr(url))
         IN  IF k \in DOMAIN b
             THEN [b EXCEPT ![k] = Append(@, Entry(url))]
             ELSE b @@ (k :> <<Entry(url)>>)

\* lines 51-59: a `?` of the output directory setup or of the reading of
\* config.json returns the error from main
MainSetupError ==
    /\ pc = "start"
    /\ result' = "err"
    /\ pc' = "done"
    /\ UNCHANGED <<start_urls, seeds, max_depth, task, stack, visited, lock,
                   fetchLog, failed, skipped, buckets, pages,
                   keyVars, linkVars>>

\* lines 61-68: dedup of the configured list, the empty visited set
MainStart ==
    /\ pc = "start"
    /\ seeds' = Dedup(start_urls)
    /\ visited' = {}
    /\ pc' = "main"
    /\ UNCHANGED <<start_urls, max_depth, task, stack, lock, fetchLog, failed,
                   skipped, buckets, result, pages,
                   keyVars, linkVars>>

\* lines 70-71: the next seed parses; crawl is called at depth 0
MainSeedCrawl ==
    /\ pc = "main" /\ seeds # <<>>
    /\ UrlParse(Head(seeds)) # <<>>
    /\ task' = <<[url |-> UrlParse(Head(seeds))[1], depth |-> 0]>>
    /\ seeds' = Tail(seeds)
    /\ pc' = "crawl"
    /\ UNCHANGED <<start_urls, max_depth, stack, visited, lock, fetchLog, failed,
                   skipped, buckets, result, pages,
                   keyVars, linkVars>>

\* line 71: Url::parse(&url)? returns the error from main
MainSeedParseError ==
    /\ pc = "main" /\ seeds # <<>>
    /\ UrlParse(Head(seeds)) = <<>>
    /\ result' = "err"
    /\ pc' = "done"
    /\ UNCHANGED <<start_urls, seeds, max_depth, task, stack, visited, lock,
                   fetchLog, failed, skipped, buckets, pages,
                   keyVars, linkVars>>

\* line 74: Ok(())
MainReturn ==
    /\ pc = "main" /\ seeds = <<>>
    /\ result' = "ok"
    /\ pc' = "done"
    /\ UNCHANGED <<start_urls, seeds, max_depth, task, stack, visited, lock,
                   fetchLog, failed, skipped, buckets, pages,
                   keyVars, linkVars>>

CrawlDepthReturnClaims ==
    /\ pc = "crawl"
    /\ DepthExceeded(Depth_(task), max_depth)
    /\ visited' = InsertVisited(visited, UrlStr(Url_(task)))
    /\ skipped' = skipped \cup {[url |-> UrlStr(Url_(task)), why |-> "depth"]}
    /\ task' = <<>>
    /\ pc' = ReturnPc(stack)
    /\ UNCHANGED <<start_urls, seeds, max_depth, stack, lock, fetchLog,
                   failed, buckets, result, pages,
                   keyVars, linkVars>>

\* lines 84-86: over the depth limit, return
CrawlDepthReturn ==
    /\ pc = "crawl"
    /\ DepthExceeded(Depth_(task), max_depth)
    /\ skipped' = skipped \cup {[url |-> UrlStr(Url_(task)), why |-> "depth"]}
    /\ task' = <<>>
    /\ pc' = ReturnPc(stack)
    /\ UNCHANGED <<start_urls, seeds, max_depth, stack, visited, lock, fetchLog,
                   failed, buckets, result, pages,
                   keyVars, linkVars>>

\* line 88: visited.lock().unwrap()
CrawlLock ==
    /\ pc = "crawl"
    /\ ~DepthExceeded(Depth_(task), max_depth)
    /\ lock = FALSE
    /\ lock' = TRUE
    /\ pc' = "locked"
    /\ UNCHANGED <<start_urls, seeds, max_depth, task, stack, visited, fetchLog,
                   failed, skipped, buckets, result, pages,
                   keyVars, linkVars>>

\* lines 89-91: already in the set; the guard is dropped by the return
CrawlVisitedReturn ==
    /\ pc = "locked"
    /\ AlreadyVisited(visited, UrlStr(Url_(task)))
    /\ lock' = FALSE
    /\ skipped' = skipped \cup {[url |-> UrlStr(Url_(task)), why |-> "visited"]}
    /\ task' = <<>>
    /\ pc' = ReturnPc(stack)
    /\ UNCHANGED <<start_urls, seeds, max_depth, stack, visited, fetchLog,
                   failed, buckets, result, pages,
                   keyVars, linkVars>>

CrawlClaimKeepsLock ==
    /\ pc = "locked"
    /\ ~AlreadyVisited(visited, UrlStr(Url_(task)))
    /\ visited' = InsertVisited(visited, UrlStr(Url_(task)))
    /\ pc' = "fetch"
    /\ UNCHANGED <<start_urls, seeds, max_depth, task, stack, lock, fetchLog,
                   failed, skipped, buckets, result, pages,
                   keyVars, linkVars>>

\* lines 92-93: insert, drop(visited_lock)
CrawlClaim ==
    /\ pc = "locked"
    /\ ~AlreadyVisited(visited, UrlStr(Url_(task)))
    /\ visited' = InsertVisited(visited, UrlStr(Url_(task)))
    /\ lock' = FALSE
    /\ pc' = "fetch"
    /\ UNCHANGED <<start_urls, seeds, max_depth, task, stack, fetchLog, failed,
                   skipped, buckets, result, pages,
                   keyVars, linkVars>>

\* line 98: client.get(url.as_str()).send(), the task suspends
CrawlSend ==
    /\ pc = "fetch"
    /\ fetchLog' = Append(fetchLog, [url |-> UrlStr(Url_(task)), depth |-> Depth_(task)])
    /\ pc' = "await"
    /\ UNCHANGED <<start_urls, seeds, max_depth, task, stack, visited, lock,
                   failed, skipped, buckets, result, pages,
                   keyVars, linkVars>>

\* the arms of lines 98-112 without a body: the url is logged (or, for an
\* unreadable body, not even that) and the task returns
FetchFails ==
    /\ pc = "await"
    /\ failed' = failed \cup {UrlStr(Url_(task))}
    /\ task' = <<>>
    /\ pc' = ReturnPc(stack)
    /\ UNCHANGED <<start_urls, seeds, max_depth, stack, visited, lock, fetchLog,
                   skipped, buckets, result, pages,
                   keyVars, linkVars>>

FetchOkLinksOnlyWithMain ==
    /\ pc = "await"
    /\ \E hasMain \in BOOLEAN, doc \in PageDocs :
          /\ buckets' = SaveToFile(buckets, Url_(task), hasMain)
          /\ stack' = Append(stack, [url |-> Url_(task),
                                     links |-> IF hasMain
                                               THEN ExtractLinks(Url_(task), doc)
                                               ELSE <<>>,
                                     depth |-> Depth_(task)])
          /\ pages' = pages @@ (UrlStr(Url_(task)) :>
                                  [main  |-> hasMain,
                                   links |-> ExtractLinks(Url_(task), doc)])
    /\ task' = <<>>
    /\ pc' = "links"
    /\ UNCHANGED <<start_urls, seeds, max_depth, visited, lock, fetchLog, failed,
                   skipped, result, keyVars, linkVars>>

\* lines 99-104: a success status and a body: save_to_file, then
\* parse_links up to the start of its for loop (lines 159-192)
FetchOk ==
    /\ pc = "await"
    /\ \E hasMain \in BOOLEAN, doc \in PageDocs :
          /\ buckets' = SaveToFile(buckets, Url_(task), hasMain)
          /\ stack' = Append(stack, [url |-> Url_(task),
                                     links |-> ExtractLinks(Url_(task), doc),
                                     depth |-> Depth_(task)])
          /\ pages' = pages @@ (UrlStr(Url_(task)) :>
                                  [main  |-> hasMain,
                                   links |-> ExtractLinks(Url_(task), doc)])
    /\ task' = <<>>
    /\ pc' = "links"
    /\ UNCHANGED <<start_urls, seeds, max_depth, visited, lock, fetchLog, failed,
                   skipped, result, keyVars, linkVars>>

FetchErrorAborts ==
    /\ pc = "await"
    /\ failed' = failed \cup {UrlStr(Url_(task))}
    /\ task' = <<>> /\ stack' = <<>>
    /\ result' = "err"
    /\ pc' = "done"
    /\ UNCHANGED <<start_urls, seeds, max_depth, visited, lock, fetchLog,
                   skipped, buckets, pages,
                   keyVars, linkVars>>

\* lines 109-111: send() returned Err
FetchError == FetchFails

FetchBadStatusParses ==
    /\ pc = "await"
    /\ failed' = failed \cup {UrlStr(Url_(task))}
    /\ \E doc \in PageDocs :
          stack' = Append(stack, [url |-> Url_(task),
                                  links |-> ExtractLinks(Url_(task), doc),
                                  depth |-> Depth_(task)])
    /\ task' = <<>>
    /\ pc' = "links"
    /\ UNCHANGED <<start_urls, seeds, max_depth, visited, lock, fetchLog,
                   skipped, buckets, result, pages,
                   keyVars, linkVars>>

\* lines 105-107: the status is not a success
FetchBadStatus == FetchFails

\* line 101: response.text() returned Err; nothing is logged
FetchBodyError == FetchFails

LinksNextAnyOrder ==
    /\ pc = "links"
    /\ \E i \in 1..Len(stack[Len(stack)].links) :
          /\ task' = <<[url   |-> stack[Len(stack)].links[i],
                        depth |-> ChildDepth(stack[Len(stack)].depth)]>>
          /\ stack' = [stack EXCEPT ![Len(stack)].links =
                                 SubSeq(@, 1, i - 1) \o SubSeq(@, i + 1, Len(@))]
    /\ pc' = "crawl"
    /\ UNCHANGED <<start_urls, seeds, max_depth, visited, lock, fetchLog, failed,
                   skipped, buckets, result, pages,
                   keyVars, linkVars>>

\* lines 192-197: the next link, crawl at depth + 1
LinksNext ==
    /\ pc = "links"
    /\ stack[Len(stack)].links # <<>>
    /\ task' = <<[url   |-> Head(stack[Len(stack)].links),
                  depth |-> ChildDepth(stack[Len(stack)].depth)]>>
    /\ stack' = [stack EXCEPT ![Len(stack)].links = Tail(@)]
    /\ pc' = "crawl"
    /\ UNCHANGED <<start_urls, seeds, max_depth, visited, lock, fetchLog, failed,
                   skipped, buckets, result, pages,
                   keyVars, linkVars>>

LinksDoneEarly ==
    /\ pc = "links"
    /\ stack' = SubSeq(stack, 1, Len(stack) - 1)
    /\ pc' = ReturnPc(stack')
    /\ UNCHANGED <<start_urls, seeds, max_depth, task, visited, lock, fetchLog,
                   failed, skipped, buckets, result, pages,
                   keyVars, linkVars>>

\* lines 198-199 and 103-113: the loop is over, parse_links and the crawl
\* that awaited it return
LinksDone ==
    /\ pc = "links"
    /\ stack[Len(stack)].links = <<>>
    /\ stack' = SubSeq(stack, 1, Len(stack) - 1)
    /\ pc' = ReturnPc(stack')
    /\ UNCHANGED <<start_urls, seeds, max_depth, task, visited, lock, fetchLog,
                   failed, skipped, buckets, result, pages,
                   keyVars, linkVars>>

Next ==
    \/ MainSetupError
    \/ MainStart \/ MainSeedCrawl \/ MainSeedParseError \/ MainReturn
    \/ CrawlDepthReturn \/ CrawlLock \/ CrawlVisitedReturn \/ CrawlClaim
    \/ CrawlSend \/ FetchError \/ FetchBadStatus \/ FetchBodyError \/ FetchOk
    \/ LinksNext \/ LinksDone

Spec == Init /\ [][Next]_vars

\* every await of the run completes: the transport answers every request
\* (the premise of termination) and the executor polls the one task
SpecFair == Spec /\ WF_vars(Next)

(***************************************************************************)
(* SpecSeeds: the same run over longer configured lists, so that a string  *)
(* can be repeated with another one in between.  max_depth is 0: the seed  *)
(* loop of lines 70-72 does not depend on it.                              *)
(***************************************************************************)
MaxConfigSeeds == 3    \* entries of config.start_urls under SpecSeeds

SInit ==
    /\ KeyIdle /\ LinkIdle
    /\ pc = "start"
    /\ start_urls \in SeqsUpTo(SeedStrs, MaxConfigSeeds)
    /\ seeds = <<>>
    /\ max_depth = 0
    /\ task = <<>> /\ stack = <<>> /\ visited = {} /\ lock = FALSE
    /\ fetchLog = <<>> /\ failed = {} /\ skipped = {} /\ buckets = <<>>
    /\ pages = <<>>
    /\ result = "none"

SpecSeeds == SInit /\ [][Next]_vars

(***************************************************************************)
(* Claims about the file name rule (SpecKey).                              *)
(***************************************************************************)
\* the scheme of an address: its prefix up to and including "://"
StripScheme(str) ==
    IF Len(str) >= Len(HttpsPrefix) /\ SubSeq(str, 1, Len(HttpsPrefix)) = HttpsPrefix
    THEN SubSeq(str, Len(HttpsPrefix) + 1, Len(str))
    ELSE IF Len(str) >= Len(HttpPrefix) /\ SubSeq(str, 1, Len(HttpPrefix)) = HttpPrefix
    THEN SubSeq(str, Len(HttpPrefix) + 1, Len(str))
    ELSE str

\* the segments as the rule is stated: scheme removed, then every character
\* that is neither alphanumeric nor '.' replaced by '_', split on '_'
StatedSegments(str) ==
    SplitAcc([i \in 1..Len(StripScheme(str)) |->
                 IF IsAlphanumeric(StripScheme(str)[i]) \/ StripScheme(str)[i] = "."
                 THEN StripScheme(str)[i] ELSE "_"], <<>>)

StatedKey(str) ==
    LET segs == StatedSegments(str)
    IN  IF Len(segs) <= 3 THEN JoinUnderscore(segs)
        ELSE JoinUnderscore(SubSeq(segs, 1, 3))

\* C7: the file name of every address is the stated key: the non-empty
\* '_'-separated segments of the address with its scheme removed and the
\* other characters replaced, all of them when there are at most 3 and the
\* first 3 otherwise.  (Fails: line 123-124 removes every occurrence of
\* "https://" and "http://", not only the scheme.)
C7_KeyIsStatedKey == kphase = "keyed" => key = StatedKey(kaddr)

AddrP    == AddrOf(S_https, << <<"/","p">> >>)
AddrPQ   == AddrOf(S_https, << <<"/","p">>, <<"/","q">> >>)
AddrPQRS == AddrOf(S_https, << <<"/","p">>, <<"/","q">>, <<"/","r">>, <<"/","s">> >>)
AddrPQRT == AddrOf(S_https, << <<"/","p">>, <<"/","q">>, <<"/","r">>, <<"/","t">> >>)

PlainPieces == { <<"/","p">>, <<"/","q">>, <<"/","r">>, <<"/","s">>, <<"/","t">> }

Resolved(base, doc) == {h \in Range(doc) : UrlJoin(base, h) # <<>>}

\* C9: the extracted list is strictly increasing, has no fragment, holds
\* exactly the resolvable same-domain hrefs (an unresolvable one is skipped,
\* the others are kept), and is the same for a reordered, duplicated or
\* re-parsed document.
C9_LinkExtraction ==
    lphase \in {"extracted", "variant"} =>
        /\ \A i \in 1..(Len(llinks) - 1) : UrlLess(llinks[i], llinks[i + 1])
        /\ \A i \in 1..Len(llinks) : llinks[i].frag = <<>>
        /\ Range(llinks) =
              { [UrlJoin(lbase, h)[1] EXCEPT !.frag = <<>>] :
                  h \in {g \in Resolved(lbase, ldoc) :
                            Domain(UrlJoin(lbase, g)[1]) = Domain(lbase)} }
        /\ (lphase = "variant" => llinks2 = llinks)

C9_Witness ==
    /\ lphase = "variant" /\ ldoc2 # ldoc
    /\ ldoc[1] = HrefBad
    /\ Len(llinks) = 2
    /\ \E i \in 1..Len(ldoc) : ldoc[i].url.frag # <<>>

\* C10: a resolved link is handed to recursion if and only if its host
\* equals the host of the page it was found on.
C10_SameHostOnly ==
    lphase \in {"extracted", "variant"} =>
        \A h \in Resolved(lbase, ldoc) :
            LET u == UrlJoin(lbase, h)[1]
            IN  ([u EXCEPT !.frag = <<>>] \in Range(llinks)) <=> (u.host = lbase.host)

(***************************************************************************)
(* Claims about the crawl (Spec, SpecFair).                                *)
(***************************************************************************)
FetchedUrls == {fetchLog[i].url : i \in 1..Len(fetchLog)}

\* C1: no URL string is fetched twice, whether its fetch succeeded or
\* failed; the test and the insert happen under one hold of the lock, and a
\* crawl reaches the fetch only for a URL it has itself just inserted.
C1_VisitOnce ==
    /\ \A i, j \in 1..Len(fetchLog) : fetchLog[i].url = fetchLog[j].url => i = j
    /\ (pc = "locked" => lock)
    /\ (pc \in {"fetch", "await"} => UrlStr(Url_(task)) \in visited /\ ~lock)
    /\ (pc = "fetch" => UrlStr(Url_(task)) \notin FetchedUrls)

C1_Witness ==
    /\ result = "ok"
    /\ Len(fetchLog) >= 2
    /\ \E s \in skipped : s.why = "visited" /\ s.url \in failed

\* C2: a seed runs at depth 0, a link of a page processed at depth d runs at
\* depth d + 1, no task deeper than max_depth gets past the depth check, and
\* with max_depth = 0 only seeds are fetched.
C2_DepthBound ==
    /\ \A i \in 1..Len(fetchLog) : fetchLog[i].depth <= max_depth
    /\ (pc \in {"locked", "fetch", "await"} => Depth_(task) <= max_depth)
    /\ (task # <<>> /\ stack = <<>> => Depth_(task) = 0)
    /\ (task # <<>> /\ stack # <<>> => Depth_(task) = stack[Len(stack)].depth + 1)
    /\ \A i \in 1..Len(stack) : stack[i].depth = i - 1
    /\ (max_depth = 0 =>
            \A i \in 1..Len(fetchLog) : \E k \in 1..Len(start_urls) :
                /\ UrlParse(start_urls[k]) # <<>>
                /\ fetchLog[i].url = UrlStr(UrlParse(start_urls[k])[1]))

C2_Witness ==
    /\ max_depth = 2
    /\ \E i \in 1..Len(fetchLog) : fetchLog[i].depth = 2
    /\ \E s \in skipped : s.why = "depth"

\* C3: when every fetch returns, main eventually returns, and it has then
\* issued exactly one fetch per address it fetched.
C3_Terminates ==
    <>(pc = "done" /\ Len(fetchLog) = Cardinality(FetchedUrls))

C3_Witness ==
    /\ pc = "done" /\ result = "ok"
    /\ Len(fetchLog) = 3
    /\ \E s \in skipped : s.why = "visited" /\ s.url = fetchLog[1].url

\* C4: a crawl over the depth limit returns without taking the lock,
\* changing the visited set, fetching or writing; the visited set holds
\* only addresses claimed for a fetch, so an address skipped for its depth
\* can still be claimed later.
C4_OverLimitNoClaim ==
    /\ [][(pc = "crawl" /\ Depth_(task) > max_depth) =>
            /\ visited' = visited /\ lock' = lock /\ lock = FALSE
            /\ fetchLog' = fetchLog /\ buckets' = buckets
            /\ task' = <<>> /\ pc' \in {"main", "links"}]_vars
    /\ [](visited = FetchedUrls \cup
                    (IF pc = "fetch" THEN {UrlStr(Url_(task))} ELSE {}))

\* the fetch of an address that an earlier task skipped for its depth
C4_Witness ==
    /\ pc = "await"
    /\ [url |-> UrlStr(Url_(task)), why |-> "depth"] \in skipped

BucketUrls == UNION {{buckets[k][i].url : i \in 1..Len(buckets[k])} : k \in DOMAIN buckets}

\* C5: a fetch that fails (transport error, non-success status, unreadable
\* body) writes no bucket entry, starts no link loop and creates no task,
\* and its address stays in the visited set.
C5_FailedFetchSilent ==
    /\ [][failed' # failed =>
            /\ buckets' = buckets /\ stack' = stack /\ task' = <<>>
            /\ fetchLog' = fetchLog
            /\ UrlStr(Url_(task)) \in visited']_vars
    /\ [](\A f \in failed :
            /\ f \in visited
            /\ f \notin BucketUrls
            /\ \A i \in 1..Len(stack) : UrlStr(stack[i].url) # f)

C5_Witness ==
    /\ pc = "done"
    /\ buckets # <<>>
    /\ Len(fetchLog) >= 2 /\ fetchLog[2].url \in failed

\* C6: a failed fetch leaves the crawl in the state that a successful fetch
\* of a page without main content and without links leaves it in when its
\* (empty) link loop is over: the same visited set, files, pending links of
\* every page and pending seeds, and control back in the caller.
C6_FailureIsolation ==
    [][failed' # failed =>
        LET u       == Url_(task)
            okStack == Append(stack, [url |-> u, links |-> ExtractLinks(u, <<>>),
                                      depth |-> Depth_(task)])
        IN  /\ okStack[Len(okStack)].links = <<>>
            /\ stack' = SubSeq(okStack, 1, Len(okStack) - 1)
            /\ pc' = ReturnPc(stack')
            /\ buckets' = SaveToFile(buckets, u, FALSE)
            /\ task' = <<>>
            /\ UNCHANGED <<start_urls, seeds, max_depth, visited, lock,
                           fetchLog, result>>]_vars

C6_Witness ==
    /\ pc = "done" /\ result = "ok"
    /\ \E i \in 1..(Len(fetchLog) - 1) :
          /\ fetchLog[i].url \in failed
          /\ fetchLog[i].depth = 1
          /\ fetchLog[i + 1].depth = 1

\* the entries of all files that carry the address u
EntriesOf(b, u) ==
    {<<k, i>> \in UNION {{k} \X (1..Len(b[k])) : k \in DOMAIN b} : b[k][i].url = u}

EntryCount(b) == Cardinality(UNION {{k} \X (1..Len(b[k])) : k \in DOMAIN b})

LinkStrs(links) == {UrlStr(links[i]) : i \in 1..Len(links)}

FetchIndex(u) == CHOOSE i \in 1..Len(fetchLog) : fetchLog[i].url = u

\* C12: every file only grows at its end; an entry is written while its
\* page is the most recent fetch (so before any link of the page is
\* crawled) and carries the page's address; the entries of a file are in
\* the order of the fetches.
C12_AppendOnlyInFetchOrder ==
    /\ [][\A k \in DOMAIN buckets :
            /\ k \in DOMAIN buckets'
            /\ Len(buckets'[k]) >= Len(buckets[k])
            /\ SubSeq(buckets'[k], 1, Len(buckets[k])) = buckets[k]]_vars
    /\ [][buckets' # buckets =>
            /\ pc = "await"
            /\ EntriesOf(buckets', fetchLog[Len(fetchLog)].url) # {}
            /\ EntriesOf(buckets, fetchLog[Len(fetchLog)].url) = {}]_vars
    /\ [](\A k \in DOMAIN buckets : \A i, j \in 1..Len(buckets[k]) :
            /\ buckets[k][i].url \in FetchedUrls
            /\ Filename(buckets[k][i].url) = k
            /\ (i < j => FetchIndex(buckets[k][i].url) < FetchIndex(buckets[k][j].url)))

C12_Witness ==
    \E k \in DOMAIN buckets :
        /\ Len(buckets[k]) = 2
        /\ buckets[k][1].url = SeedF /\ buckets[k][2].url = SeedA
        /\ pc = "done"

(***************************************************************************)
(* Claims about the seed list (SpecSeeds).                                 *)
(***************************************************************************)
Occurrences(seq, x) == Cardinality({i \in 1..Len(seq) : seq[i] = x})

\* C13: after lines 61-65 every distinct string of the configured list
\* occurs exactly once in the list that the seed loop iterates, wherever
\* its repetitions stood.
C13_SeedsDeduplicated ==
    [][(pc = "start" /\ pc' = "main") =>
         \A s \in Range(start_urls) : Occurrences(seeds', s) = 1]_vars

(***************************************************************************)
(* Claims about the crawl, continued (Spec).                               *)
(***************************************************************************)
\* C14: a run that ends with an error from main (lines 51-59 or the
\* Url::parse of line 71) has fetched no page and written no entry.
C14_FatalBeforeCrawling ==
    (pc = "done" /\ result = "err") => (fetchLog = <<>> /\ buckets = <<>>)

HasFragment(str) == InSeq("#", str)

StripFragment(str) ==
    IF HasFragment(str) THEN SubSeq(str, 1, IndexOf("#", str) - 1) ELSE str

\* C15: no string of the visited set has a fragment, so no two fetched
\* addresses differ in their fragment only.
C15_VisitedWithoutFragment ==
    /\ \A str \in visited : ~HasFragment(str)
    /\ \A u, v \in FetchedUrls : StripFragment(u) = StripFragment(v) => u = v

\* C16: the lock of the visited set is held exactly between line 88 and the
\* return of line 90 or the drop of line 93: never while a request is
\* sent or awaited, a body saved or parsed, or a link crawled; both ways
\* out of the locked section release it, the set changes only inside it,
\* and a crawl that arrives at line 88 finds the lock free.
C16_LockOnlyAroundTestAndInsert ==
    /\ [](lock <=> pc = "locked")
    /\ [][pc = "locked" => (~lock' /\ pc' \in {"fetch", "main", "links"})]_vars
    /\ [][visited' # visited => lock]_vars
    /\ [](pc = "crawl" /\ ~DepthExceeded(Depth_(task), max_depth) => ENABLED CrawlLock)

\* a crawl called from the link loop of a fetched page has claimed its
\* address and awaits the response, after an earlier crawl left the locked
\* section by the already-visited return
C16_Witness ==
    /\ pc = "await" /\ ~lock
    /\ stack # <<>>
    /\ \E s \in skipped : s.why = "visited"

\* the addresses of the seeds that parse (line 71)
SeedUrlStrs ==
    {UrlStr(UrlParse(start_urls[i])[1]) :
        i \in {j \in 1..Len(start_urls) : UrlParse(start_urls[j]) # <<>>}}

\* the addresses a chain of at most n extracted (same-domain) links leads to
\* from a seed, over the pages the transport served
RECURSIVE ReachWithin(_)
ReachWithin(n) ==
    IF n = 0 THEN SeedUrlStrs
    ELSE LET prev == ReachWithin(n - 1)
         IN  prev \cup UNION {LinkStrs(pages[u].links) : u \in prev \cap DOMAIN pages}

\* C17: at the end of a run in which no fetch failed, every address within
\* max_depth links of a seed has been fetched.
C17_CoverageWithinDepth ==
    (pc = "done" /\ result = "ok" /\ failed = {}) =>
        ReachWithin(max_depth) \subseteq FetchedUrls

IsSuffix(s, t) ==
    Len(s) <= Len(t) /\ s = SubSeq(t, Len(t) - Len(s) + 1, Len(t))

\* the page of address u is inside its link loop
OnStack(u) == \E i \in 1..Len(stack) : UrlStr(stack[i].url) = u

\* requests sent and not yet answered
InFlight ==
    {i \in 1..Len(fetchLog) : fetchLog[i].url \notin (DOMAIN pages \cup failed)}

\* a crawl of address l has returned: at a check, after a failed fetch, or
\* after the link loop of its page
Terminal(l) ==
    \/ \E sk \in skipped : sk.url = l
    \/ l \in failed
    \/ (l \in DOMAIN pages /\ ~OnStack(l))

RefStart == [log |-> <<>>, visited |-> {}, buckets |-> <<>>, result |-> "ok"]

RECURSIVE RefCrawl(_, _, _)
RefCrawl(work, maxd, st) ==
    IF work = <<>> THEN st
    ELSE LET url   == Head(work).url
             depth == Head(work).depth
             u     == UrlStr(url)
             rest  == Tail(work)
         IN  IF depth > maxd \/ u \in st.visited THEN RefCrawl(rest, maxd, st)
             ELSE LET st1 == [st EXCEPT !.visited = @ \cup {u},
                                        !.log = Append(@, [url |-> u, depth |-> depth])]
                  IN  IF u \notin DOMAIN pages THEN RefCrawl(rest, maxd, st1)
                      ELSE RefCrawl(
                             [i \in 1..Len(pages[u].links) |->
                                 [url |-> pages[u].links[i], depth |-> depth + 1]]
                               \o rest,
                             maxd,
                             [st1 EXCEPT !.buckets = SaveToFile(@, url, pages[u].main)])

RECURSIVE RefSeeds(_, _, _)
RefSeeds(sds, maxd, st) ==
    IF sds = <<>> THEN st
    ELSE IF UrlParse(Head(sds)) = <<>> THEN [st EXCEPT !.result = "err"]
    ELSE RefSeeds(Tail(sds), maxd,
                  RefCrawl(<<[url |-> UrlParse(Head(sds))[1], depth |-> 0]>>, maxd, st))

RefRun == RefSeeds(Dedup(start_urls), max_depth, RefStart)

\* main got past the setup of lines 51-59
SetupDone == ~(result = "err" /\ seeds = <<>>)

\* C19: the fetches of a finished run, in their order, its visited set, its
\* files with their entries in their order, and its result are those the
\* inputs and the transport's answers determine.
C19_RunDeterminedByInputs ==
    (pc = "done" /\ SetupDone) =>
        /\ fetchLog = RefRun.log
        /\ visited = RefRun.visited
        /\ buckets = RefRun.buckets
        /\ result = RefRun.result

\* a finished run where a page had two links, both fetched, and two
\* entries went to one file: the order of the links shows in the result
C19_Witness ==
    /\ pc = "done" /\ SetupDone
    /\ Len(fetchLog) = 3
    /\ fetchLog[2].depth = 1 /\ fetchLog[3].depth = 1
    /\ \E k \in DOMAIN buckets : Len(buckets[k]) = 2

====
